---- MODULE Spec2Model ----
(***************************************************************************)
(* A model of the foodgram backend: the ingredient catalog, the recipes    *)
(* with their ingredient lines, the favorite / shopping-cart relations,    *)
(* the subscriptions and the request handlers of backend/api/views.py and  *)
(* backend/api/serializers.py.                                             *)
(*                                                                         *)
(* Every database statement is one atomic step (Django's default           *)
(* autocommit: the code opens no transaction), so a handler that issues    *)
(* several statements is split at the statements, and several handler      *)
(* threads (Workers) interleave between them.                              *)
(***************************************************************************)
EXTENDS Integers, Sequences, FiniteSets, TLC

NumUsers == 2
NumWorkers == 2
MaxRecipes == 2
MaxLines == 3

Users == 1..NumUsers
Workers == 1..NumWorkers
RecipeIds == 1..MaxRecipes

\* The two concrete relation models served by _handle_user_recipe_relation.
RelationModels == {"BookmarkedRecipe", "ShoppingListRecipe"}

None == [t |-> "none"]

\* The ingredient fixtures: rows 1 and 2 share the name and the unit
\* (CulinaryIngredient.name is not unique), row 4 shares the name only.
Catalog == <<[name |-> "Salt", measurement_unit |-> "g"],
             [name |-> "Salt", measurement_unit |-> "g"],
             [name |-> "Pepper", measurement_unit |-> "g"],
             [name |-> "Salt", measurement_unit |-> "kg"]>>
\* No test script is running.
NoScript == [test |-> "none", step |-> "done"]

NoReq == [handler |-> "none"]

VARIABLES
    client,         \* the test client's script: the url it toggles and the call it is at
    users,          \* CulinaryUser rows: the set of ids that have a row
    ingredients,    \* CulinaryIngredient rows: id -> [name, measurement_unit]
    recipes,        \* CulinaryRecipe rows: id -> [author, cooking_time], or None when there is no such row
    next_id,        \* the id the next inserted CulinaryRecipe row gets
    lines,          \* RecipeIngredient rows: a set of [recipe, ingredient, amount, notes]
    relation,       \* BookmarkedRecipe / ShoppingListRecipe: model -> <<user, recipe>> -> number of rows
    planned_cooking_date, \* ShoppingListRecipe.planned_cooking_date: <<user, recipe>> -> the date of the row, None for NULL or no row
    subscriptions,  \* ChefSubscription: <<follower, author>> -> number of rows
    pc,             \* worker -> the statement the handler thread is about to run
    req,            \* worker -> the request in flight and the handler's local variables
    resp            \* the response most recently sent: [status, detail, errors, items, content]

vars == <<client, users, ingredients, recipes, next_id, lines, relation, planned_cooking_date, subscriptions, pc, req, resp>>

stores == <<users, ingredients, recipes, next_id, lines, relation, planned_cooking_date, subscriptions>>

recipe_tables == <<users, ingredients, recipes, next_id, lines>>

----
\* Storage layer

\* The foreign keys to CulinaryUser: a row can only name a user that has a row.
UserExists(u) == u \in users

RecipeExists(r) == r \in RecipeIds /\ recipes[r] # None

\* UniqueConstraint(fields=[...]) on a table kept as key -> number of rows.
UniqueViolation_off(tbl, key) == FALSE

UniqueViolation(tbl, key) == tbl[key] >= 1

\* CheckConstraint prevent_self_follow, and clean() called from save().
SelfFollow_off(follower, author) == FALSE

SelfFollow(follower, author) == follower = author

InsertRow(tbl, key) == [tbl EXCEPT ![key] = @ + 1]

\* No ShoppingListRecipe row has a planned date.
NoDates == [k \in Users \X RecipeIds |-> None]

\* planned_cooking_date is a column of the ShoppingListRecipe row: a new row
\* has NULL, and the date goes when the row goes.
DatesOfRows(rel) ==
    [k \in Users \X RecipeIds |->
        IF rel["ShoppingListRecipe"][k] > 0 THEN planned_cooking_date[k] ELSE None]

\* QuerySet.filter(...).delete(): every matching row goes.
DeleteRows(tbl, key) == [tbl EXCEPT ![key] = 0]

\* QuerySet.filter(...).first().delete(): one row goes.
DeleteFirst(tbl, key) == [tbl EXCEPT ![key] = @ - 1]

Response(status, detail, errors) ==
    [status |-> status, detail |-> detail, errors |-> errors, items |-> <<>>, content |-> <<>>]

Respond(w, status, detail) == resp' = Response(status, detail, <<>>)

Finish(w) == /\ pc' = [pc EXCEPT ![w] = "idle"]
             /\ req' = [req EXCEPT ![w] = NoReq]

----
\* CulinaryRecipeViewSet._handle_user_recipe_relation

\* relation_model.objects.filter(user=user, recipe=recipe).exists()
RelationExists_anyUser(m, u, r) == \E u2 \in Users : relation[m][<<u2, r>>] > 0

RelationExists(m, u, r) == relation[m][<<u, r>>] > 0

\* get_object(), the exists() query and the early returns.
RelationBegin(w, m, method, u, r) ==
    /\ pc[w] = "idle"
    /\ UNCHANGED <<client, stores>>
    /\ IF ~RecipeExists(r)
       THEN Respond(w, 404, "not_found") /\ UNCHANGED <<pc, req>>
       ELSE LET relation_exists == RelationExists(m, u, r) IN
            IF method = "POST"
            THEN IF relation_exists
                 THEN Respond(w, 400, "exists_message") /\ UNCHANGED <<pc, req>>
                 ELSE /\ pc' = [pc EXCEPT ![w] = "relation_create"]
                      /\ req' = [req EXCEPT ![w] =
                                   [handler |-> "relation", model |-> m, user |-> u, recipe |-> r]]
                      /\ UNCHANGED resp
            ELSE IF ~relation_exists
                 THEN Respond(w, 400, "not_found_message") /\ UNCHANGED <<pc, req>>
                 ELSE /\ pc' = [pc EXCEPT ![w] = "relation_delete"]
                      /\ req' = [req EXCEPT ![w] =
                                   [handler |-> "relation", model |-> m, user |-> u, recipe |-> r]]
                      /\ UNCHANGED resp

\* relation_model.objects.create(user=user, recipe=recipe), then 201.
RelationCreate_bothModels(w) ==
    /\ pc[w] = "relation_create"
    /\ LET m == req[w].model
           key == <<req[w].user, req[w].recipe>> IN
       IF \/ ~RecipeExists(req[w].recipe)
          \/ ~UserExists(req[w].user)
          \/ UniqueViolation(relation[m], key)
       THEN Respond(w, 500, "IntegrityError") /\ UNCHANGED relation
       ELSE /\ relation' = [m2 \in RelationModels |->
                               IF m2 = m \/ relation[m2][key] = 0
                               THEN InsertRow(relation[m2], key) ELSE relation[m2]]
            /\ Respond(w, 201, "created")
    /\ Finish(w)
    /\ planned_cooking_date' = DatesOfRows(relation')
    /\ UNCHANGED <<client, recipe_tables, subscriptions>>

RelationCreate(w) ==
    /\ pc[w] = "relation_create"
    /\ LET m == req[w].model
           key == <<req[w].user, req[w].recipe>> IN
       IF \/ ~RecipeExists(req[w].recipe)
          \/ ~UserExists(req[w].user)
          \/ UniqueViolation(relation[m], key)
       THEN Respond(w, 500, "IntegrityError") /\ UNCHANGED relation
       ELSE /\ relation' = [relation EXCEPT ![m] = InsertRow(@, key)]
            /\ Respond(w, 201, "created")
    /\ Finish(w)
    /\ planned_cooking_date' = DatesOfRows(relation')
    /\ UNCHANGED <<client, recipe_tables, subscriptions>>

\* relation_model.objects.filter(user=user, recipe=recipe).delete(), then 204.
RelationDelete_everyUser(w) ==
    /\ pc[w] = "relation_delete"
    /\ relation' = [relation EXCEPT ![req[w].model] =
                       [k \in Users \X RecipeIds |-> IF k[2] = req[w].recipe THEN 0 ELSE @[k]]]
    /\ Respond(w, 204, "no_content")
    /\ Finish(w)
    /\ planned_cooking_date' = DatesOfRows(relation')
    /\ UNCHANGED <<client, recipe_tables, subscriptions>>

RelationDelete(w) ==
    /\ pc[w] = "relation_delete"
    /\ relation' = [relation EXCEPT ![req[w].model] = DeleteRows(@, <<req[w].user, req[w].recipe>>)]
    /\ Respond(w, 204, "no_content")
    /\ Finish(w)
    /\ planned_cooking_date' = DatesOfRows(relation')
    /\ UNCHANGED <<client, recipe_tables, subscriptions>>

----
\* UserProfileViewSet.manage_subscription

\* author == current_user
IsSelf_never(author, current_user) == FALSE

IsSelf(author, current_user) == author = current_user

\* ChefSubscription.objects.filter(author=author, follower=current_user).exists()
SubscriptionExists_swapped(current_user, author) == subscriptions[<<author, current_user>>] > 0

SubscriptionExists(current_user, author) == subscriptions[<<current_user, author>>] > 0

\* get_object(), the self check, the exists() query and the early returns.
SubscriptionBegin(w, method, current_user, author) ==
    /\ pc[w] = "idle"
    /\ UNCHANGED <<client, stores>>
    /\ IF IsSelf(author, current_user)
       THEN Respond(w, 400, "self_subscription") /\ UNCHANGED <<pc, req>>
       ELSE LET subscription_exists == SubscriptionExists(current_user, author) IN
            IF method = "POST"
            THEN IF subscription_exists
                 THEN Respond(w, 400, "already_subscribed") /\ UNCHANGED <<pc, req>>
                 ELSE /\ pc' = [pc EXCEPT ![w] = "subscription_create"]
                      /\ req' = [req EXCEPT ![w] =
                                   [handler |-> "subscription", user |-> current_user, author |-> author]]
                      /\ UNCHANGED resp
            ELSE IF ~subscription_exists
                 THEN Respond(w, 400, "not_subscribed") /\ UNCHANGED <<pc, req>>
                 ELSE /\ pc' = [pc EXCEPT ![w] = "subscription_delete"]
                      /\ req' = [req EXCEPT ![w] =
                                   [handler |-> "subscription", user |-> current_user, author |-> author]]
                      /\ UNCHANGED resp

\* ChefSubscription.objects.create(author=author, follower=current_user), then 201.
SubscriptionCreate(w) ==
    /\ pc[w] = "subscription_create"
    /\ LET key == <<req[w].user, req[w].author>> IN
       IF SelfFollow(req[w].user, req[w].author)
       THEN Respond(w, 500, "ValidationError") /\ UNCHANGED subscriptions
       ELSE IF \/ ~UserExists(req[w].user)
               \/ ~UserExists(req[w].author)
               \/ UniqueViolation(subscriptions, key)
       THEN Respond(w, 500, "IntegrityError") /\ UNCHANGED subscriptions
       ELSE /\ subscriptions' = InsertRow(subscriptions, key)
            /\ Respond(w, 201, "created")
    /\ Finish(w)
    /\ UNCHANGED <<client, recipe_tables, relation, planned_cooking_date>>

\* ChefSubscription.objects.filter(...).first().delete(), then 204; first() is
\* None when the row is gone, and None.delete() raises AttributeError.
SubscriptionDelete(w) ==
    /\ pc[w] = "subscription_delete"
    /\ LET key == <<req[w].user, req[w].author>> IN
       IF subscriptions[key] = 0
       THEN Respond(w, 500, "AttributeError") /\ UNCHANGED subscriptions
       ELSE /\ subscriptions' = DeleteFirst(subscriptions, key)
            /\ Respond(w, 204, "no_content")
    /\ Finish(w)
    /\ UNCHANGED <<client, recipe_tables, relation, planned_cooking_date>>

----
\* CulinaryRecipeCreateUpdateSerializer

\* A JSON value of an ingredient line: an integer, a string holding the
\* decimal digits of v, a string that is no number, or None for a missing key.
\* The DictField child of the ingredients field hands the values on as sent.
JInt(n) == [t |-> "int", v |-> n]

JStr(n) == [t |-> "str", v |-> n]

NotANumber == [t |-> "bad", v |-> 0]

Item(id, amount) == [id |-> id, amount |-> amount]

\* Python truth of item.get("id"): None and 0 are false, a string of digits
\* is true.
Truthy(x) == x # None /\ ~(x.t = "int" /\ x.v = 0)

\* int(amount) raises TypeError / ValueError
RaisesOnInt(a) == a.t \notin {"int", "str"}

Err(kind, index, ids) == [kind |-> kind, index |-> index, ids |-> ids]

\* amount < 1
AmountTooSmall_zeroAllowed(amount) == amount < 0

AmountTooSmall(amount) == amount < 1

\* The errors one pass of the loop body appends for item number i (0-based),
\* with seen_ingredients as it is before the pass.
ItemErrors(item, i, seen_ingredients) ==
    (IF ~Truthy(item.id) THEN <<Err("missing_id", i + 1, {})>> ELSE <<>>)
    \o (IF item.amount # None
        THEN IF RaisesOnInt(item.amount)
             THEN <<Err("bad_amount_format", i + 1, {})>>
             ELSE IF AmountTooSmall(item.amount.v)
                  THEN <<Err("amount_lt_1", i + 1, {})>>
                  ELSE <<>>
        ELSE <<Err("missing_amount", i + 1, {})>>)
    \o (IF Truthy(item.id) /\ item.id \in seen_ingredients
        THEN <<Err("duplicate", i + 1, {item.id})>>
        ELSE <<>>)

RECURSIVE ValidateLoop(_, _, _, _)
\* for i, item in enumerate(value): ... ; gives the errors and seen_ingredients.
ValidateLoop(value, i, errors, seen_ingredients) ==
    IF i >= Len(value)
    THEN [errors |-> errors, seen_ingredients |-> seen_ingredients]
    ELSE LET item == value[i + 1] IN
         ValidateLoop(value, i + 1,
                      errors \o ItemErrors(item, i, seen_ingredients),
                      IF Truthy(item.id)
                      THEN seen_ingredients \cup {item.id}
                      ELSE seen_ingredients)

\* set(CulinaryIngredient.objects.filter(id__in=seen_ingredients).values_list("id")):
\* the lookup converts each value to the integer of the column, and the
\* values of the rows it finds are integers.
ExistingIds(seen_ingredients) ==
    { JInt(n) : n \in { x.v : x \in seen_ingredients } \cap DOMAIN ingredients }

\* validate_ingredients: the error list it raises with, empty when it returns value.
validate_ingredients_failFast(value) ==
    IF Len(value) < 1
    THEN <<Err("empty", 0, {})>>
    ELSE LET loop == ValidateLoop(value, 0, <<>>, {})
             missing_ids == loop.seen_ingredients \ ExistingIds(loop.seen_ingredients)
         IN IF loop.errors # <<>> THEN <<Head(loop.errors)>>
            ELSE IF missing_ids # {} THEN <<Err("nonexistent", 0, missing_ids)>> ELSE <<>>

validate_ingredients(value) ==
    IF Len(value) < 1
    THEN <<Err("empty", 0, {})>>
    ELSE LET loop == ValidateLoop(value, 0, <<>>, {})
             missing_ids == loop.seen_ingredients \ ExistingIds(loop.seen_ingredients)
         IN loop.errors
            \o (IF loop.seen_ingredients # {} /\ missing_ids # {}
                THEN <<Err("nonexistent", 0, missing_ids)>>
                ELSE <<>>)

\* validate_cooking_time
validate_cooking_time(value) ==
    IF value < 1 THEN <<Err("cooking_time_lt_1", 0, {})>> ELSE <<>>

\* serializer.is_valid(): every field is validated and the errors of all
\* fields are raised together; a missing field is an error unless partial.
is_valid_errors(data, partial) ==
    (IF data.has_cooking_time
     THEN validate_cooking_time(data.cooking_time)
     ELSE IF partial THEN <<>> ELSE <<Err("cooking_time_required", 0, {})>>)
    \o (IF data.has_ingredients
        THEN validate_ingredients(data.ingredients)
        ELSE IF partial THEN <<>> ELSE <<Err("ingredients_required", 0, {})>>)

\* DecimalField(max_digits=8, decimal_places=2): the largest whole amount a row holds.
MaxStoredAmount == 999999

LinesOf(r) == {l \in lines : l.recipe = r}

\* The RecipeIngredient objects _create_recipe_ingredients builds.
RecipeIngredientObjs(recipe, ingredients_data) ==
    [k \in 1..Len(ingredients_data) |->
        [recipe |-> recipe, ingredient |-> ingredients_data[k].id.v,
         amount |-> ingredients_data[k].amount.v, notes |-> ""]]

\* What makes RecipeIngredient.objects.bulk_create(objs) raise: the recipe row
\* is gone, an amount does not fit the column, or unique_recipe_ingredient.
BulkCreateFails_noConstraint(objs) ==
    \/ \E k \in DOMAIN objs : ~RecipeExists(objs[k].recipe)
    \/ \E k \in DOMAIN objs : objs[k].amount > MaxStoredAmount

BulkCreateFails(objs) ==
    \/ \E k \in DOMAIN objs : ~RecipeExists(objs[k].recipe)
    \/ \E k \in DOMAIN objs : objs[k].amount > MaxStoredAmount
    \/ \E j, k \in DOMAIN objs :
          j # k /\ objs[j].recipe = objs[k].recipe /\ objs[j].ingredient = objs[k].ingredient
    \/ \E k \in DOMAIN objs, l \in lines :
          l.recipe = objs[k].recipe /\ l.ingredient = objs[k].ingredient

\* _create_recipe_ingredients: the objects.get() of every item, then bulk_create.
CreateRecipeIngredients(w, recipe, ingredients_data, status) ==
    LET objs == RecipeIngredientObjs(recipe, ingredients_data) IN
    IF \E k \in DOMAIN objs : objs[k].ingredient \notin DOMAIN ingredients
    THEN Respond(w, 500, "DoesNotExist") /\ UNCHANGED lines
    ELSE IF BulkCreateFails(objs)
    THEN Respond(w, 500, "IntegrityError") /\ UNCHANGED lines
    ELSE /\ lines' = lines \cup {objs[k] : k \in DOMAIN objs}
         /\ Respond(w, status, "ok")

----
\* CulinaryRecipeViewSet: create, update / partial_update, destroy

\* instance.author != self.request.user
NotAuthor_never(instance, user) == FALSE

NotAuthor(instance, user) == instance.author # user

\* The value of a key of request.data that is no field of the serializer
\* (Meta.fields has no "author"): kept on the request, not in validated_data.
Unset == 0

RequestAuthor(data) == IF "author" \in DOMAIN data THEN data.author ELSE Unset

\* POST /recipes/: is_valid(), then perform_create -> serializer.save().
CreateHandler(w, user, data) ==
    /\ UNCHANGED <<client, stores>>
    /\ LET errors == is_valid_errors(data, FALSE) IN
       IF errors # <<>>
       THEN resp' = Response(400, "ValidationError", errors) /\ Finish(w)
       ELSE /\ next_id + Cardinality({v \in Workers : pc[v] = "create_recipe"}) <= MaxRecipes
            /\ pc' = [pc EXCEPT ![w] = "create_recipe"]
            /\ req' = [req EXCEPT ![w] =
                         [handler |-> "create", user |-> user, recipe |-> 0,
                          request_author |-> RequestAuthor(data),
                          cooking_time |-> data.cooking_time, ingredients |-> data.ingredients]]
            /\ UNCHANGED resp

CreateBegin(w, user, data) == pc[w] = "idle" /\ CreateHandler(w, user, data)

\* CulinaryRecipe.objects.create(author=self.context["request"].user, **validated_data)
CreateRecipe_authorFromRequest(w) ==
    /\ pc[w] = "create_recipe"
    /\ IF ~UserExists(req[w].user)
       THEN /\ Respond(w, 500, "IntegrityError")
            /\ Finish(w)
            /\ UNCHANGED <<client, stores>>
       ELSE /\ recipes' = [recipes EXCEPT ![next_id] =
                            [author |-> IF req[w].request_author # Unset
                                        THEN req[w].request_author ELSE req[w].user,
                             cooking_time |-> req[w].cooking_time]]
            /\ next_id' = next_id + 1
            /\ pc' = [pc EXCEPT ![w] = "create_lines"]
            /\ req' = [req EXCEPT ![w].recipe = next_id]
            /\ UNCHANGED <<client, users, ingredients, lines, relation, planned_cooking_date, subscriptions, resp>>

CreateRecipe(w) ==
    /\ pc[w] = "create_recipe"
    /\ IF ~UserExists(req[w].user)
       THEN /\ Respond(w, 500, "IntegrityError")
            /\ Finish(w)
            /\ UNCHANGED <<client, stores>>
       ELSE /\ recipes' = [recipes EXCEPT ![next_id] =
                            [author |-> req[w].user, cooking_time |-> req[w].cooking_time]]
            /\ next_id' = next_id + 1
            /\ pc' = [pc EXCEPT ![w] = "create_lines"]
            /\ req' = [req EXCEPT ![w].recipe = next_id]
            /\ UNCHANGED <<client, users, ingredients, lines, relation, planned_cooking_date, subscriptions, resp>>

\* self._create_recipe_ingredients(recipe, ingredients_data), then 201.
CreateLines(w) ==
    /\ pc[w] = "create_lines"
    /\ CreateRecipeIngredients(w, req[w].recipe, req[w].ingredients, 201)
    /\ Finish(w)
    /\ UNCHANGED <<client, users, ingredients, recipes, next_id, relation, planned_cooking_date, subscriptions>>

\* PUT / PATCH /recipes/{id}/: get_object(), is_valid(), perform_update and the
\* first lines of serializer.update, up to the statement that writes.
UpdateHandler_ingredientsOptional(w, user, r, data, partial) ==
    /\ UNCHANGED <<client, stores>>
    /\ IF ~RecipeExists(r)
       THEN Respond(w, 404, "not_found") /\ Finish(w)
       ELSE LET errors == is_valid_errors(data, partial) IN
            IF errors # <<>>
            THEN resp' = Response(400, "ValidationError", errors) /\ Finish(w)
            ELSE IF NotAuthor(recipes[r], user)
            THEN Respond(w, 403, "PermissionDenied") /\ Finish(w)
            ELSE IF ~data.has_ingredients
            THEN Respond(w, 200, "ok") /\ Finish(w)
            ELSE /\ pc' = [pc EXCEPT ![w] = "update_save"]
                 /\ req' = [req EXCEPT ![w] =
                              [handler |-> "update", user |-> user, recipe |-> r,
                               instance |-> IF data.has_cooking_time
                                            THEN [recipes[r] EXCEPT !.cooking_time = data.cooking_time]
                                            ELSE recipes[r],
                               ingredients |-> data.ingredients,
                               original |-> LinesOf(r)]]
                 /\ UNCHANGED resp

UpdateHandler(w, user, r, data, partial) ==
    /\ UNCHANGED <<client, stores>>
    /\ IF ~RecipeExists(r)
       THEN Respond(w, 404, "not_found") /\ Finish(w)
       ELSE LET errors == is_valid_errors(data, partial) IN
            IF errors # <<>>
            THEN resp' = Response(400, "ValidationError", errors) /\ Finish(w)
            ELSE IF NotAuthor(recipes[r], user)
            THEN Respond(w, 403, "PermissionDenied") /\ Finish(w)
            ELSE IF ~data.has_ingredients
            THEN /\ resp' = Response(400, "ValidationError", <<Err("ingredients_required", 0, {})>>)
                 /\ Finish(w)
            ELSE /\ pc' = [pc EXCEPT ![w] = "update_save"]
                 /\ req' = [req EXCEPT ![w] =
                              [handler |-> "update", user |-> user, recipe |-> r,
                               instance |-> IF data.has_cooking_time
                                            THEN [recipes[r] EXCEPT !.cooking_time = data.cooking_time]
                                            ELSE recipes[r],
                               ingredients |-> data.ingredients,
                               original |-> LinesOf(r)]]
                 /\ UNCHANGED resp

UpdateBegin(w, user, r, data, partial) ==
    pc[w] = "idle" /\ UpdateHandler(w, user, r, data, partial)

\* A request the server has received and not yet dispatched to its handler.
HandleReceived(w) ==
    /\ pc[w] = "received"
    /\ IF req[w].method = "POST"
       THEN CreateHandler(w, req[w].user, req[w].data)
       ELSE UpdateHandler(w, req[w].user, req[w].recipe, req[w].data, req[w].method = "PATCH")

\* instance.save(): an UPDATE of the row, and an INSERT when the UPDATE matched
\* no row; the INSERT is refused when the author's row is gone.
UpdateSave(w) ==
    /\ pc[w] = "update_save"
    /\ IF ~RecipeExists(req[w].recipe) /\ ~UserExists(req[w].instance.author)
       THEN /\ Respond(w, 500, "IntegrityError")
            /\ Finish(w)
            /\ UNCHANGED <<client, stores>>
       ELSE /\ recipes' = [recipes EXCEPT ![req[w].recipe] = req[w].instance]
            /\ pc' = [pc EXCEPT ![w] = "update_delete"]
            /\ UNCHANGED <<client, users, ingredients, next_id, lines, relation, planned_cooking_date, subscriptions, req, resp>>

\* instance.recipes_ingredients.all().delete()
UpdateDelete_skipped(w) ==
    /\ pc[w] = "update_delete"
    /\ lines' = lines
    /\ pc' = [pc EXCEPT ![w] = "update_insert"]
    /\ UNCHANGED <<client, users, ingredients, recipes, next_id, relation, planned_cooking_date, subscriptions, req, resp>>

UpdateDelete(w) ==
    /\ pc[w] = "update_delete"
    /\ lines' = lines \ LinesOf(req[w].recipe)
    /\ pc' = [pc EXCEPT ![w] = "update_insert"]
    /\ UNCHANGED <<client, users, ingredients, recipes, next_id, relation, planned_cooking_date, subscriptions, req, resp>>

\* self._create_recipe_ingredients(instance, ingredients_data), then 200.
UpdateInsert(w) ==
    /\ pc[w] = "update_insert"
    /\ CreateRecipeIngredients(w, req[w].recipe, req[w].ingredients, 200)
    /\ Finish(w)
    /\ UNCHANGED <<client, users, ingredients, recipes, next_id, relation, planned_cooking_date, subscriptions>>

\* DELETE /recipes/{id}/: get_object() and perform_destroy up to instance.delete().
DestroyBegin(w, user, r) ==
    /\ pc[w] = "idle"
    /\ UNCHANGED <<client, stores>>
    /\ IF ~RecipeExists(r)
       THEN Respond(w, 404, "not_found") /\ UNCHANGED <<pc, req>>
       ELSE IF NotAuthor(recipes[r], user)
       THEN Respond(w, 403, "PermissionDenied") /\ UNCHANGED <<pc, req>>
       ELSE /\ pc' = [pc EXCEPT ![w] = "destroy_delete"]
            /\ req' = [req EXCEPT ![w] = [handler |-> "destroy", user |-> user, recipe |-> r]]
            /\ UNCHANGED resp

\* instance.delete(): the row and, by on_delete=CASCADE, its ingredient lines
\* and relation rows go in one transaction of the collector.
DestroyDelete(w) ==
    /\ pc[w] = "destroy_delete"
    /\ recipes' = [recipes EXCEPT ![req[w].recipe] = None]
    /\ lines' = lines \ LinesOf(req[w].recipe)
    /\ relation' = [m \in RelationModels |->
                      [k \in Users \X RecipeIds |->
                         IF k[2] = req[w].recipe THEN 0 ELSE relation[m][k]]]
    /\ Respond(w, 204, "no_content")
    /\ Finish(w)
    /\ planned_cooking_date' = DatesOfRows(relation')
    /\ UNCHANGED <<client, users, ingredients, next_id, subscriptions>>

\* The server process dies while a handler is between two statements: the
\* statements already run are committed (autocommit), the rest never run.
Crash(w) ==
    /\ pc[w] # "idle"
    /\ Respond(w, 0, "crash")
    /\ Finish(w)
    /\ UNCHANGED <<client, stores>>

----
\* CulinaryRecipeViewSet.download_shopping_cart

\* ShoppingListRecipe.objects.filter(user=request.user).values_list("recipe", flat=True)
CartRecipes_anyUser(user) ==
    { r \in RecipeIds : \E u \in Users : relation["ShoppingListRecipe"][<<u, r>>] > 0 }

CartRecipes(user) == { r \in RecipeIds : relation["ShoppingListRecipe"][<<user, r>>] > 0 }

\* RecipeIngredient.objects.filter(recipe__in=recipes)
CartLines(user) == { l \in lines : l.recipe \in CartRecipes(user) }

\* .values("ingredient__name", "ingredient__measurement_unit"): the GROUP BY key
GroupKey_byIngredient(l) ==
    <<ingredients[l.ingredient].name, ingredients[l.ingredient].measurement_unit, l.ingredient>>

GroupKey(l) == <<ingredients[l.ingredient].name, ingredients[l.ingredient].measurement_unit>>

RECURSIVE SumAmount(_)
\* Sum("amount") over the rows of one group
SumAmount(rows) ==
    IF rows = {} THEN 0
    ELSE LET l == CHOOSE x \in rows : TRUE IN l.amount + SumAmount(rows \ {l})

\* .annotate(total_amount=Sum("amount")): one row per group
Annotated(rows) ==
    { [name |-> key[1], measurement_unit |-> key[2],
       total_amount |-> SumAmount({ l \in rows : GroupKey(l) = key })] :
        key \in { GroupKey(l) : l \in rows } }

\* The collation of the names in the fixtures.
Alphabetical == <<"Pepper", "Salt">>

NameRank(name) == CHOOSE k \in DOMAIN Alphabetical : Alphabetical[k] = name

\* .order_by("ingredient__name"): the orders of the rows the database may
\* give; rows with equal names come in any order.
OrderedByName(rowset) ==
    { q \in [1..Cardinality(rowset) -> rowset] :
        /\ \A j, k \in DOMAIN q : j # k => q[j] # q[k]
        /\ \A j, k \in DOMAIN q : j < k => NameRank(q[j].name) <= NameRank(q[k].name) }

\* str() of the Decimal a DecimalField(decimal_places=2) aggregate gives
FormatAmount(total) == ToString(total) \o ".00"

\* f"{item['ingredient__name']} ({item['ingredient__measurement_unit']}): {item['total_amount']}"
ContentLine(item) ==
    item.name \o " (" \o item.measurement_unit \o "): " \o FormatAmount(item.total_amount)

\* GET /recipes/download_shopping_cart/
Download(w, user) ==
    /\ pc[w] = "idle"
    /\ UNCHANGED <<client, stores, pc, req>>
    /\ \E items \in OrderedByName(Annotated(CartLines(user))) :
         IF items = <<>>
         THEN Respond(w, 400, "shopping_list_empty")
         ELSE resp' = [status |-> 200, detail |-> "attachment", errors |-> <<>>,
                       items |-> items,
                       content |-> [k \in DOMAIN items |-> ContentLine(items[k])]]

----
\* IngredientSearchViewSet.get_queryset

UpperCase == "ABCDEFGHIJKLMNOPQRSTUVWXYZ"

LowerCase == "abcdefghijklmnopqrstuvwxyz"

CharAt(str, k) == SubSeq(str, k, k)

Letters == UpperCase \o LowerCase

Chars == { CharAt(Letters, k) : k \in 1..Len(Letters) }

\* UPPER() of one character, as the database applies it for istartswith.
UpperChar ==
    [c \in Chars |->
        IF \E k \in 1..Len(LowerCase) : CharAt(LowerCase, k) = c
        THEN CharAt(UpperCase, CHOOSE k \in 1..Len(LowerCase) : CharAt(LowerCase, k) = c)
        ELSE c]

UpperOf(str) == [k \in 1..Len(str) |-> UpperChar[CharAt(str, k)]]

\* name__istartswith=search_term: UPPER(name) LIKE UPPER(search_term) || '%'
NameIStartsWith_caseSensitive(name, search_term) ==
    /\ Len(search_term) <= Len(name)
    /\ SubSeq(name, 1, Len(search_term)) = search_term

NameIStartsWith(name, search_term) ==
    /\ Len(search_term) <= Len(name)
    /\ UpperOf(SubSeq(name, 1, Len(search_term))) = UpperOf(search_term)

\* The code point order of the letters.
CodePoint == [c \in Chars |-> CHOOSE k \in 1..Len(Letters) : CharAt(Letters, k) = c]

CodePoints(str) == [k \in 1..Len(str) |-> CodePoint[CharAt(str, k)]]

RECURSIVE NameBefore(_, _, _)
\* a sorts strictly before b, both given by their code points from position k on
NameBefore(a, b, k) ==
    IF k > Len(b) THEN FALSE
    ELSE IF k > Len(a) THEN TRUE
    ELSE IF a[k] # b[k] THEN a[k] < b[k]
    ELSE NameBefore(a, b, k + 1)

\* Meta.ordering = ("name",): the orders the database may give the rows in;
\* rows with equal names come in any order.
OrderedByMeta(ids) ==
    LET key == [i \in ids |-> CodePoints(ingredients[i].name)] IN
    { q \in [1..Cardinality(ids) -> ids] :
        /\ \A j, k \in DOMAIN q : j # k => q[j] # q[k]
        /\ \A j, k \in DOMAIN q : j < k => ~NameBefore(key[q[k]], key[q[j]], 1) }

\* The queryset: all rows, filtered when the name parameter is non-empty.
SearchQueryset(has_name, search_term) ==
    IF has_name /\ search_term # ""
    THEN { i \in DOMAIN ingredients : NameIStartsWith(ingredients[i].name, search_term) }
    ELSE DOMAIN ingredients

\* A GET /ingredients/ request arrives, with or without the name parameter.
SearchReceive(w, has_name, search_term) ==
    /\ pc[w] = "idle"
    /\ pc' = [pc EXCEPT ![w] = "search"]
    /\ req' = [req EXCEPT ![w] =
                 [handler |-> "search", has_name |-> has_name, name |-> search_term]]
    /\ UNCHANGED <<client, stores, resp>>

\* GET /ingredients/?name=search_term: the list action over get_queryset().
Search(w) ==
    /\ pc[w] = "search"
    /\ UNCHANGED <<client, stores>>
    /\ Finish(w)
    /\ \E q \in OrderedByMeta(SearchQueryset(req[w].has_name, req[w].name)) :
         resp' = [status |-> 200, detail |-> "ingredients", errors |-> <<>>,
                  items |-> [k \in DOMAIN q |->
                               [id |-> q[k], name |-> ingredients[q[k]].name,
                                measurement_unit |-> ingredients[q[k]].measurement_unit]],
                  content |-> <<>>]

----
\* CulinaryUserProfileSerializer, CulinaryRecipeDetailSerializer and the
\* retrieve actions that render them

\* request.user of a request without credentials (AnonymousUser, whose id is None)
Anonymous == 0

Viewers == Users \cup {Anonymous}

is_authenticated(user) == user # Anonymous

\* get_is_subscribed: current_user and current_user.is_authenticated and
\* ChefSubscription.objects.filter(author=author, follower=current_user).exists()
get_is_subscribed_reversed(current_user, author) ==
    is_authenticated(current_user) /\ subscriptions[<<author, current_user>>] > 0

get_is_subscribed(current_user, author) ==
    is_authenticated(current_user) /\ subscriptions[<<current_user, author>>] > 0

\* _get_user_recipe_relation_status:
\* bool(user and relation_model.objects.filter(user=user, recipe=recipe).exists())
get_user_recipe_relation_status_anyUser(user, recipe, relation_model) ==
    is_authenticated(user) /\ \E u \in Users : relation[relation_model][<<u, recipe>>] > 0

get_user_recipe_relation_status(user, recipe, relation_model) ==
    is_authenticated(user) /\ relation[relation_model][<<user, recipe>>] > 0

\* get_ingredients: one entry per row of obj.recipes_ingredients.all()
get_ingredients(recipe) ==
    { [id |-> l.ingredient, name |-> ingredients[l.ingredient].name,
       measurement_unit |-> ingredients[l.ingredient].measurement_unit,
       amount |-> l.amount] : l \in LinesOf(recipe) }

UserProfileData(current_user, author) ==
    [id |-> author, is_subscribed |-> get_is_subscribed(current_user, author)]

RecipeDetailData(user, r, instance) ==
    [id |-> r,
     cooking_time |-> instance.cooking_time,
     author |-> UserProfileData(user, instance.author),
     ingredients |-> get_ingredients(r),
     is_favorited |-> get_user_recipe_relation_status(user, r, "BookmarkedRecipe"),
     is_in_shopping_cart |-> get_user_recipe_relation_status(user, r, "ShoppingListRecipe")]

\* GET /users/{id}/
ProfileRetrieve(w, current_user, author) ==
    /\ pc[w] = "idle"
    /\ UNCHANGED <<client, stores, pc, req>>
    /\ resp' = [status |-> 200, detail |-> "user", errors |-> <<>>,
                items |-> <<UserProfileData(current_user, author)>>, content |-> <<>>]

\* GET /recipes/{id}/: get_object()
RetrieveBegin(w, user, r) ==
    /\ pc[w] = "idle"
    /\ UNCHANGED <<client, stores>>
    /\ IF ~RecipeExists(r)
       THEN Respond(w, 404, "not_found") /\ UNCHANGED <<pc, req>>
       ELSE /\ pc' = [pc EXCEPT ![w] = "retrieve_serialize"]
            /\ req' = [req EXCEPT ![w] =
                         [handler |-> "retrieve", user |-> user, recipe |-> r,
                          instance |-> recipes[r]]]
            /\ UNCHANGED resp

\* serializer.data: the queries of the method fields, then 200.
RetrieveSerialize(w) ==
    /\ pc[w] = "retrieve_serialize"
    /\ UNCHANGED <<client, stores>>
    /\ resp' = [status |-> 200, detail |-> "recipe", errors |-> <<>>,
                items |-> <<RecipeDetailData(req[w].user, req[w].recipe, req[w].instance)>>,
                content |-> <<>>]
    /\ Finish(w)

----
\* tests/test_views_recipes.py test_toggle_favorite_recipe and
\* tests/test_views_users.py test_toggle_user_subscription: the client POSTs to
\* the url, asserts 201 and that the row exists, DELETEs the url, asserts 204
\* and that the row does not exist.

\* The urls: manage-favorites and manage-shopping-cart of a recipe for the
\* authenticated user, manage-subscription of another user.
ToggleScripts ==
    { [test |-> "relation", model |-> m, user |-> u, target |-> r, step |-> "post"] :
        m \in RelationModels, u \in Users, r \in RecipeIds }
    \cup
    { [test |-> "subscription", model |-> "ChefSubscription", user |-> k[1], target |-> k[2],
       step |-> "post"] : k \in {k \in Users \X Users : k[1] # k[2]} }

\* ...objects.filter(user=..., recipe=...).exists() / filter(follower=..., author=...).exists()
ScriptRowExists ==
    IF client.test = "relation"
    THEN relation[client.model][<<client.user, client.target>>] > 0
    ELSE subscriptions[<<client.user, client.target>>] > 0

\* drf_client.post(url) / drf_client.delete(url): the request reaches the handler.
ScriptSend(w) ==
    /\ client.step \in {"post", "delete"}
    /\ resp.detail = IF client.step = "post" THEN "none" ELSE "created"
    /\ LET method == IF client.step = "post" THEN "POST" ELSE "DELETE" IN
       IF client.test = "relation"
       THEN RelationBegin(w, client.model, method, client.user, client.target)
       ELSE SubscriptionBegin(w, method, client.user, client.target)

\* The two asserts after each call.
ScriptAssert(w) ==
    /\ pc[w] = "idle"
    /\ client.step \in {"post", "delete"}
    /\ resp.detail # (IF client.step = "post" THEN "none" ELSE "created")
    /\ client' = [client EXCEPT !.step =
                     IF client.step = "post"
                     THEN IF resp.status = 201 /\ ScriptRowExists THEN "delete" ELSE "failed"
                     ELSE IF resp.status = 204 /\ ~ScriptRowExists THEN "passed" ELSE "failed"]
    /\ UNCHANGED <<stores, pc, req, resp>>

----
\* CulinaryUser.delete(), as the admin site (CulinaryUserAdmin) runs it: by
\* on_delete=CASCADE the user's recipes with their ingredient lines and
\* relation rows, the user's own relation rows and the subscriptions on either
\* side go with the row, in the one transaction of the collector.
AuthoredRecipes(u) == {r \in RecipeIds : recipes[r] # None /\ recipes[r].author = u}

UserDelete_keepsRelations(u) ==
    /\ UserExists(u)
    /\ users' = users \ {u}
    /\ recipes' = [r \in RecipeIds |-> IF r \in AuthoredRecipes(u) THEN None ELSE recipes[r]]
    /\ lines' = {l \in lines : l.recipe \notin AuthoredRecipes(u)}
    /\ relation' = [m \in RelationModels |->
                      [k \in Users \X RecipeIds |->
                         IF k[2] \in AuthoredRecipes(u) THEN 0 ELSE relation[m][k]]]
    /\ subscriptions' = [k \in Users \X Users |->
                           IF k[1] = u \/ k[2] = u THEN 0 ELSE subscriptions[k]]
    /\ resp' = Response(0, "deleted", <<>>)
    /\ planned_cooking_date' = DatesOfRows(relation')
    /\ UNCHANGED <<client, ingredients, next_id, pc, req>>

UserDelete(u) ==
    /\ UserExists(u)
    /\ users' = users \ {u}
    /\ recipes' = [r \in RecipeIds |-> IF r \in AuthoredRecipes(u) THEN None ELSE recipes[r]]
    /\ lines' = {l \in lines : l.recipe \notin AuthoredRecipes(u)}
    /\ relation' = [m \in RelationModels |->
                      [k \in Users \X RecipeIds |->
                         IF k[1] = u \/ k[2] \in AuthoredRecipes(u) THEN 0 ELSE relation[m][k]]]
    /\ subscriptions' = [k \in Users \X Users |->
                           IF k[1] = u \/ k[2] = u THEN 0 ELSE subscriptions[k]]
    /\ resp' = Response(0, "deleted", <<>>)
    /\ planned_cooking_date' = DatesOfRows(relation')
    /\ UNCHANGED <<client, ingredients, next_id, pc, req>>

----
\* Model.objects.create(...) called directly, as tests/test_models.py and the
\* admin site do: no handler, only the constraints of the table.
DirectRelationCreate(m, u, r) ==
    /\ RecipeExists(r)
    /\ UserExists(u)
    /\ IF UniqueViolation(relation[m], <<u, r>>)
       THEN resp' = Response(0, "IntegrityError", <<>>) /\ UNCHANGED relation
       ELSE /\ relation' = [relation EXCEPT ![m] = InsertRow(@, <<u, r>>)]
            /\ resp' = Response(0, "created", <<>>)
    /\ planned_cooking_date' = DatesOfRows(relation')
    /\ UNCHANGED <<client, recipe_tables, subscriptions, pc, req>>

\* The dates a ShoppingListRecipe row can carry.
PlannedDates == {None, [t |-> "date", v |-> "2025-01-01"]}

\* The change form of ShoppingListRecipeAdmin saves the row with the date
\* the staff user entered (blank=True, null=True).
AdminSetPlannedDate(u, r, date) ==
    /\ relation["ShoppingListRecipe"][<<u, r>>] > 0
    /\ planned_cooking_date' = [planned_cooking_date EXCEPT ![<<u, r>>] = date]
    /\ resp' = Response(0, "saved", <<>>)
    /\ UNCHANGED <<client, recipe_tables, relation, subscriptions, pc, req>>

DirectSubscriptionCreate(follower, author) ==
    /\ UserExists(follower)
    /\ UserExists(author)
    /\ IF SelfFollow(follower, author)
       THEN resp' = Response(0, "ValidationError", <<>>) /\ UNCHANGED subscriptions
       ELSE IF UniqueViolation(subscriptions, <<follower, author>>)
       THEN resp' = Response(0, "IntegrityError", <<>>) /\ UNCHANGED subscriptions
       ELSE /\ subscriptions' = InsertRow(subscriptions, <<follower, author>>)
            /\ resp' = Response(0, "created", <<>>)
    /\ UNCHANGED <<client, recipe_tables, relation, planned_cooking_date, pc, req>>

----
\* The state after the fixtures of tests/conftest.py: the users, one recipe of
\* user 1 with one ingredient line, no relation rows, every worker idle.
Init ==
    /\ client = NoScript
    /\ planned_cooking_date = NoDates
    /\ users = Users
    /\ ingredients = Catalog
    /\ recipes = [r \in RecipeIds |->
                    IF r = 1 THEN [author |-> 1, cooking_time |-> 1] ELSE None]
    /\ next_id = 2
    /\ lines = {[recipe |-> 1, ingredient |-> 1, amount |-> 5, notes |-> "fine"]}
    /\ relation = [m \in RelationModels |-> [k \in Users \X RecipeIds |-> 0]]
    /\ subscriptions = [k \in Users \X Users |-> 0]
    /\ pc = [w \in Workers |-> "idle"]
    /\ req = [w \in Workers |-> NoReq]
    /\ resp = Response(0, "none", <<>>)

NextRelations ==
    \/ \E w \in Workers, m \in RelationModels, method \in {"POST", "DELETE"},
          u \in Users, r \in RecipeIds : RelationBegin(w, m, method, u, r)
    \/ \E w \in Workers : RelationCreate(w)
    \/ \E w \in Workers : RelationDelete(w)

SpecRelations == Init /\ [][NextRelations]_vars

NextSubscriptions ==
    \/ \E w \in Workers, method \in {"POST", "DELETE"}, u \in Users, a \in Users :
          SubscriptionBegin(w, method, u, a)
    \/ \E w \in Workers : SubscriptionCreate(w)
    \/ \E w \in Workers : SubscriptionDelete(w)

SpecSubscriptions == Init /\ [][NextSubscriptions]_vars

\* The relation and subscription handlers together with the direct inserts.
NextSocial ==
    \/ NextRelations
    \/ NextSubscriptions
    \/ \E m \in RelationModels, u \in Users, r \in RecipeIds : DirectRelationCreate(m, u, r)
    \/ \E u \in Users, a \in Users : DirectSubscriptionCreate(u, a)

SpecSocial == Init /\ [][NextSocial]_vars

\* The ingredient lists the recipe requests of SpecRecipes carry.
RecipePayloads ==
    { <<>>,
      <<Item(JInt(1), JInt(2))>>,
      <<Item(JInt(2), JInt(1)), Item(JInt(3), JStr(2))>>,
      <<Item(JInt(1), JInt(MaxStoredAmount + 1))>>,
      <<Item(JInt(4), JInt(1)), Item(JInt(1), JInt(1))>>,
      <<Item(JInt(3), JInt(1)), Item(JInt(3), JInt(0))>> }

\* The request bodies: each of the two fields is absent or carries a value.
RecipeData ==
    { d \in [has_cooking_time : BOOLEAN, cooking_time : {0, 2},
             has_ingredients : BOOLEAN, ingredients : RecipePayloads] :
        /\ (~d.has_cooking_time => d.cooking_time = 0)
        /\ (~d.has_ingredients => d.ingredients = <<>>) }

\* As Init, with user 2 having recipe 1 among the favorites and in the cart.
InitRecipes ==
    /\ client = NoScript
    /\ planned_cooking_date = NoDates
    /\ users = Users
    /\ ingredients = Catalog
    /\ recipes = [r \in RecipeIds |->
                    IF r = 1 THEN [author |-> 1, cooking_time |-> 1] ELSE None]
    /\ next_id = 2
    /\ lines = {[recipe |-> 1, ingredient |-> 1, amount |-> 5, notes |-> "fine"]}
    /\ relation = [m \in RelationModels |->
                     [k \in Users \X RecipeIds |-> IF k = <<2, 1>> THEN 1 ELSE 0]]
    /\ subscriptions = [k \in Users \X Users |-> 0]
    /\ pc = [w \in Workers |-> "idle"]
    /\ req = [w \in Workers |-> NoReq]
    /\ resp = Response(0, "none", <<>>)

\* The recipe requests handled by worker w, and the crash of that worker.
NextRecipesOf(w) ==
    \/ \E u \in Users, data \in RecipeData : CreateBegin(w, u, data)
    \/ CreateRecipe(w)
    \/ CreateLines(w)
    \/ \E u \in Users, r \in RecipeIds, data \in RecipeData, partial \in BOOLEAN :
          UpdateBegin(w, u, r, data, partial)
    \/ UpdateSave(w)
    \/ UpdateDelete(w)
    \/ UpdateInsert(w)
    \/ \E u \in Users, r \in RecipeIds : DestroyBegin(w, u, r)
    \/ DestroyDelete(w)
    \/ Crash(w)

\* Recipe requests one after the other.
NextRecipes == NextRecipesOf(1)

SpecRecipes == InitRecipes /\ [][NextRecipes]_vars

\* The JSON values the lines of a received request are made of: ids absent,
\* 0, in the catalog (1, 2) and not in it; amounts absent, an integer that
\* is too small, a numeric string that is large enough, and not a number.
UnknownId == Len(Catalog) + 5

ItemValues ==
    { Item(id, amount) :
        id \in {None, JInt(0), JInt(1), JInt(2), JInt(UnknownId)},
        amount \in {None, JInt(0), JStr(1), NotANumber} }

LineSeqs == UNION { [1..n -> ItemValues] : n \in 0..MaxLines }

ReceivedRequests ==
    { [handler |-> "received", method |-> method, user |-> 1, recipe |-> 1,
       data |-> [has_cooking_time |-> TRUE, cooking_time |-> 2,
                 has_ingredients |-> TRUE, ingredients |-> value]] :
        method \in {"POST", "PATCH"}, value \in LineSeqs }

\* One received request of user 1, a create or an update of the user's own
\* recipe, with any ingredient list, over the fixtures.
InitValidate ==
    /\ client = NoScript
    /\ planned_cooking_date = NoDates
    /\ users = Users
    /\ ingredients = Catalog
    /\ recipes = [r \in RecipeIds |->
                    IF r = 1 THEN [author |-> 1, cooking_time |-> 1] ELSE None]
    /\ next_id = 2
    /\ lines = {[recipe |-> 1, ingredient |-> 1, amount |-> 5, notes |-> "fine"]}
    /\ relation = [m \in RelationModels |-> [k \in Users \X RecipeIds |-> 0]]
    /\ subscriptions = [k \in Users \X Users |-> 0]
    /\ pc = [w \in Workers |-> IF w = 1 THEN "received" ELSE "idle"]
    /\ \E q \in ReceivedRequests : req = [w \in Workers |-> IF w = 1 THEN q ELSE NoReq]
    /\ resp = Response(0, "none", <<>>)

NextValidate ==
    \/ HandleReceived(1)
    \/ CreateRecipe(1)
    \/ CreateLines(1)
    \/ UpdateSave(1)
    \/ UpdateDelete(1)
    \/ UpdateInsert(1)

SpecValidate == InitValidate /\ [][NextValidate]_vars

\* The JSON values of the lines of a short list: ids absent, 0, in the catalog
\* as an integer and as a string of digits, and not in the catalog; amounts
\* absent, too small, large enough as an integer and as a string of digits,
\* and not a number.
InitLines ==
    /\ client = NoScript
    /\ planned_cooking_date = NoDates
    /\ users = Users
    /\ ingredients = Catalog
    /\ recipes = [r \in RecipeIds |->
                    IF r = 1 THEN [author |-> 1, cooking_time |-> 1] ELSE None]
    /\ next_id = 2
    /\ lines = {[recipe |-> 1, ingredient |-> 1, amount |-> 5, notes |-> "fine"]}
    /\ relation = [m \in RelationModels |-> [k \in Users \X RecipeIds |-> 0]]
    /\ subscriptions = [k \in Users \X Users |-> 0]
    /\ pc = [w \in Workers |-> IF w = 1 THEN "received" ELSE "idle"]
    /\ \E method \in {"POST", "PATCH"}, n \in 0..(MaxLines - 1) :
         \E value \in [1..n -> { Item(id, amount) :
                                   id \in {None, JInt(0), JInt(1), JStr(1), JInt(UnknownId)},
                                   amount \in {None, JInt(0), JInt(2), JStr(1), NotANumber} }] :
            req = [w \in Workers |->
                     IF w = 1
                     THEN [handler |-> "received", method |-> method, user |-> 1, recipe |-> 1,
                           data |-> [has_cooking_time |-> TRUE, cooking_time |-> 2,
                                     has_ingredients |-> TRUE, ingredients |-> value]]
                     ELSE NoReq]
    /\ resp = Response(0, "none", <<>>)

SpecLines == InitLines /\ [][NextValidate]_vars

\* Two recipes of two authors: A with the line (Salt, 5, g, "fine") and B
\* with the line (Salt, 3, g, ""), on two distinct ingredient rows.
InitShopping ==
    /\ client = NoScript
    /\ planned_cooking_date = NoDates
    /\ users = Users
    /\ ingredients = Catalog
    /\ recipes = [r \in RecipeIds |->
                    IF r = 1 THEN [author |-> 1, cooking_time |-> 1]
                    ELSE IF r = 2 THEN [author |-> 2, cooking_time |-> 1]
                    ELSE None]
    /\ next_id = 3
    /\ lines = {[recipe |-> 1, ingredient |-> 1, amount |-> 5, notes |-> "fine"],
                [recipe |-> 2, ingredient |-> 2, amount |-> 3, notes |-> ""]}
    /\ relation = [m \in RelationModels |-> [k \in Users \X RecipeIds |-> 0]]
    /\ subscriptions = [k \in Users \X Users |-> 0]
    /\ pc = [w \in Workers |-> "idle"]
    /\ req = [w \in Workers |-> NoReq]
    /\ resp = Response(0, "none", <<>>)

\* Shopping-cart requests, updates of the recipes' ingredient lines and
\* downloads of the list, one after the other.
NextShopping ==
    \/ \E method \in {"POST", "DELETE"}, u \in Users, r \in RecipeIds :
          RelationBegin(1, "ShoppingListRecipe", method, u, r)
    \/ RelationCreate(1)
    \/ RelationDelete(1)
    \/ \E u \in Users, r \in RecipeIds, value \in RecipePayloads :
          UpdateBegin(1, u, r, [has_cooking_time |-> FALSE, cooking_time |-> 0,
                                has_ingredients |-> TRUE, ingredients |-> value], TRUE)
    \/ UpdateSave(1)
    \/ UpdateDelete(1)
    \/ UpdateInsert(1)
    \/ \E u \in Users : Download(1, u)

SpecShopping == InitShopping /\ [][NextShopping]_vars

\* The catalogs and the queries of the ingredient search.
MaxCatalog == 3

NamePool == {"Salt", "Salmon", "Pepper", "Sage"}

SearchTerms == {"", "s", "sal", "SAL", "Sal", "salt", "alt", "salmons", "pe"}

\* Any catalog of up to MaxCatalog rows with names of the pool, no recipes.
InitSearch ==
    /\ client = NoScript
    /\ planned_cooking_date = NoDates
    /\ users = Users
    /\ ingredients \in UNION { [1..n -> [name : NamePool, measurement_unit : {"g"}]] :
                                 n \in 0..MaxCatalog }
    /\ recipes = [r \in RecipeIds |-> None]
    /\ next_id = 1
    /\ lines = {}
    /\ relation = [m \in RelationModels |-> [k \in Users \X RecipeIds |-> 0]]
    /\ subscriptions = [k \in Users \X Users |-> 0]
    /\ pc = [w \in Workers |-> "idle"]
    /\ req = [w \in Workers |-> NoReq]
    /\ resp = Response(0, "none", <<>>)

NextSearch ==
    \/ \E search_term \in SearchTerms : SearchReceive(1, TRUE, search_term)
    \/ SearchReceive(1, FALSE, "")
    \/ Search(1)

SpecSearch == InitSearch /\ [][NextSearch]_vars

\* Update requests of any user for either recipe of the two authors, full
\* or partial, one after the other.
NextUpdate ==
    \/ \E u \in Users, r \in RecipeIds, data \in RecipeData, partial \in BOOLEAN :
          UpdateBegin(1, u, r, data, partial)
    \/ UpdateSave(1)
    \/ UpdateDelete(1)
    \/ UpdateInsert(1)

SpecUpdate == InitShopping /\ [][NextUpdate]_vars

\* The request bodies that carry no ingredients field, and those that carry
\* the one-line list.
BodiesWithoutIngredients == { d \in RecipeData : ~d.has_ingredients }

BodiesWithOneLine ==
    { d \in RecipeData : d.has_ingredients /\ d.ingredients = <<Item(JInt(1), JInt(2))>> }

\* Update requests of any user for either recipe, full or partial, with a
\* body of these two kinds, one after the other.
NextFieldUpdate ==
    \/ \E u \in Users, r \in RecipeIds, partial \in BOOLEAN :
          \E data \in BodiesWithoutIngredients \cup BodiesWithOneLine :
             UpdateBegin(1, u, r, data, partial)
    \/ UpdateSave(1)
    \/ UpdateDelete(1)
    \/ UpdateInsert(1)

SpecFieldUpdate == InitShopping /\ [][NextFieldUpdate]_vars

\* The body that carries a cooking time and the one-line list.
OneLineBody ==
    [has_cooking_time |-> TRUE, cooking_time |-> 2,
     has_ingredients |-> TRUE, ingredients |-> <<Item(JInt(1), JInt(2))>>]

\* Deletions against the requests that insert rows: cart requests,
\* updates and creates with the one-line body and deletes of recipes by
\* existing users on every worker, and deletions of users.
NextCascade ==
    \/ \E w \in Workers, u \in users, r \in RecipeIds :
          RelationBegin(w, "ShoppingListRecipe", "POST", u, r)
    \/ \E w \in Workers : RelationCreate(w)
    \/ \E w \in Workers, u \in users : CreateBegin(w, u, OneLineBody)
    \/ \E w \in Workers : CreateRecipe(w)
    \/ \E w \in Workers : CreateLines(w)
    \/ \E w \in Workers, u \in users, r \in RecipeIds :
          UpdateBegin(w, u, r, OneLineBody, TRUE)
    \/ \E w \in Workers : UpdateSave(w)
    \/ \E w \in Workers : UpdateDelete(w)
    \/ \E w \in Workers : UpdateInsert(w)
    \/ \E w \in Workers, u \in users, r \in RecipeIds : DestroyBegin(w, u, r)
    \/ \E w \in Workers : DestroyDelete(w)
    \/ \E u \in Users : UserDelete(u)

SpecCascade == InitRecipes /\ [][NextCascade]_vars

\* The bodies of the create requests: as RecipeData, with or without an
\* author key naming any user.
CreateData ==
    { [has_cooking_time |-> d.has_cooking_time, cooking_time |-> d.cooking_time,
       has_ingredients |-> d.has_ingredients, ingredients |-> d.ingredients,
       author |-> a] : d \in RecipeData, a \in {Unset} \cup Users }

\* Create requests of any user one after the other, the deletion of a
\* recipe by its author, and the crash of the worker.
NextCreate ==
    \/ \E u \in Users, data \in CreateData : CreateBegin(1, u, data)
    \/ CreateRecipe(1)
    \/ CreateLines(1)
    \/ \E u \in Users, r \in RecipeIds : DestroyBegin(1, u, r)
    \/ DestroyDelete(1)
    \/ Crash(1)

SpecCreate == InitRecipes /\ [][NextCreate]_vars

\* Partial updates of the ingredient lines of either recipe handled by
\* worker 1 while worker 2 serves recipe pages to any viewer.
NextReadDuringUpdate ==
    \/ \E u \in Users, r \in RecipeIds, value \in RecipePayloads :
          UpdateBegin(1, u, r, [has_cooking_time |-> FALSE, cooking_time |-> 0,
                                has_ingredients |-> TRUE, ingredients |-> value], TRUE)
    \/ UpdateSave(1)
    \/ UpdateDelete(1)
    \/ UpdateInsert(1)
    \/ \E u \in Viewers, r \in RecipeIds : RetrieveBegin(2, u, r)
    \/ RetrieveSerialize(2)

SpecReadDuringUpdate == InitShopping /\ [][NextReadDuringUpdate]_vars

\* Two storable ingredient lists, and partial updates of recipe 1 by its
\* author with either list, handled by any worker at the same time.
ConcurrentBodies ==
    { <<Item(JInt(1), JInt(2))>>,
      <<Item(JInt(2), JInt(1)), Item(JInt(3), JStr(2))>> }

NextTwoUpdates ==
    \/ \E w \in Workers, value \in ConcurrentBodies :
          UpdateBegin(w, 1, 1, [has_cooking_time |-> FALSE, cooking_time |-> 0,
                                has_ingredients |-> TRUE, ingredients |-> value], TRUE)
    \/ \E w \in Workers : UpdateSave(w)
    \/ \E w \in Workers : UpdateDelete(w)
    \/ \E w \in Workers : UpdateInsert(w)

SpecTwoUpdates == InitShopping /\ [][NextTwoUpdates]_vars

\* Favorite and shopping-cart requests of any user on any recipe id, on all
\* workers at the same time, next to a subscription.
NextBothKinds ==
    \/ \E w \in Workers, m \in RelationModels, method \in {"POST", "DELETE"},
          u \in Users, r \in RecipeIds : RelationBegin(w, m, method, u, r)
    \/ \E w \in Workers : RelationCreate(w)
    \/ \E w \in Workers : RelationDelete(w)
    \/ DirectSubscriptionCreate(2, 1)

SpecBothKinds == InitRecipes /\ [][NextBothKinds]_vars

\* Shopping-list downloads of any user while rows come into the relation
\* tables and the subscriptions, and cart rows get planned dates.
NextOwnCart ==
    \/ \E u \in Users, r \in RecipeIds : DirectRelationCreate("ShoppingListRecipe", u, r)
    \/ \E u \in {1, 2} : DirectRelationCreate("BookmarkedRecipe", u, 1)
    \/ DirectSubscriptionCreate(2, 1)
    \/ \E u \in Users, date \in PlannedDates : AdminSetPlannedDate(u, 1, date)
    \/ \E u \in Users : Download(1, u)

SpecOwnCart == InitShopping /\ [][NextOwnCart]_vars

\* Create, update and delete requests of any user, one after the other, each
\* handled to its response.
NextRequests ==
    \/ \E u \in Users, data \in RecipeData : CreateBegin(1, u, data)
    \/ CreateRecipe(1)
    \/ CreateLines(1)
    \/ \E u \in Users, r \in RecipeIds, data \in RecipeData, partial \in BOOLEAN :
          UpdateBegin(1, u, r, data, partial)
    \/ UpdateSave(1)
    \/ UpdateDelete(1)
    \/ UpdateInsert(1)
    \/ \E u \in Users, r \in RecipeIds : DestroyBegin(1, u, r)
    \/ DestroyDelete(1)

SpecRequests == InitRecipes /\ [][NextRequests]_vars

\* Any stored favorites, shopping carts and subscriptions over the fixtures:
\* at most one row per pair, rows for existing recipes only, nobody
\* subscribed to oneself.
InitLookups ==
    /\ client = NoScript
    /\ planned_cooking_date = NoDates
    /\ users = Users
    /\ ingredients = Catalog
    /\ recipes = [r \in RecipeIds |->
                    IF r = 1 THEN [author |-> 1, cooking_time |-> 1] ELSE None]
    /\ next_id = 2
    /\ lines = {[recipe |-> 1, ingredient |-> 1, amount |-> 5, notes |-> "fine"]}
    /\ relation \in [RelationModels ->
                       { [k \in Users \X RecipeIds |-> IF k[2] = 1 THEN g[k[1]] ELSE 0] :
                           g \in [Users -> {0, 1}] }]
    /\ subscriptions \in { [k \in Users \X Users |-> IF k[1] = k[2] THEN 0 ELSE g[k]] :
                             g \in [Users \X Users -> {0, 1}] }
    /\ pc = [w \in Workers |-> "idle"]
    /\ req = [w \in Workers |-> NoReq]
    /\ resp = Response(0, "none", <<>>)

\* The profile and recipe pages read by any user or by nobody logged in.
NextLookups ==
    \/ \E u \in Viewers, a \in Users : ProfileRetrieve(1, u, a)
    \/ \E u \in Viewers, r \in RecipeIds : RetrieveBegin(1, u, r)
    \/ RetrieveSerialize(1)

SpecLookups == InitLookups /\ [][NextLookups]_vars

\* Two recipes, any stored favorites and shopping-cart rows of recipe 1 and
\* any stored subscriptions to user 1, with the row of the script's url absent.
InitToggle ==
    /\ client \in ToggleScripts
    /\ planned_cooking_date = NoDates
    /\ users = Users
    /\ ingredients = Catalog
    /\ recipes = [r \in RecipeIds |-> [author |-> IF r = 1 THEN 1 ELSE 2, cooking_time |-> 1]]
    /\ next_id = MaxRecipes + 1
    /\ lines = {[recipe |-> 1, ingredient |-> 1, amount |-> 5, notes |-> "fine"]}
    /\ relation \in [RelationModels ->
                       { [k \in Users \X RecipeIds |-> IF k[2] = 1 THEN g[k[1]] ELSE 0] :
                           g \in [Users -> {0, 1}] }]
    /\ subscriptions \in { [k \in Users \X Users |->
                               IF k[2] = 1 /\ k[1] # 1 THEN g[k[1]] ELSE 0] :
                             g \in [Users -> {0, 1}] }
    /\ ~ScriptRowExists
    /\ pc = [w \in Workers |-> "idle"]
    /\ req = [w \in Workers |-> NoReq]
    /\ resp = Response(0, "none", <<>>)

\* The script's calls, one after the other, each handled to its response.
NextToggle ==
    \/ ScriptSend(1)
    \/ RelationCreate(1)
    \/ RelationDelete(1)
    \/ SubscriptionCreate(1)
    \/ SubscriptionDelete(1)
    \/ ScriptAssert(1)

SpecToggle == InitToggle /\ [][NextToggle]_vars

----
\* C1: when an update request fails after its delete statement and before
\* its insert has stored the new lines, the recipe has the ingredient lines
\* it had when the request began.
C1_LineReplacementAtomic ==
    [][\A w \in Workers :
        (pc[w] = "update_insert" /\ pc'[w] = "idle" /\ resp'.status # 200)
          => {l \in lines' : l.recipe = req[w].recipe} = req[w].original
    ]_vars

\* C2: an update or a delete of an existing recipe requested by a user who
\* is not its author is answered 403 and changes no stored row.
C2_NonAuthorRefused ==
    [][\A w \in Workers, u \in Users, r \in RecipeIds :
        /\ \A data \in RecipeData, partial \in BOOLEAN :
             (recipes[r] # None /\ recipes[r].author # u /\ UpdateBegin(w, u, r, data, partial))
               => (resp'.status = 403 /\ UNCHANGED stores)
        /\ (recipes[r] # None /\ recipes[r].author # u /\ DestroyBegin(w, u, r))
               => (resp'.status = 403 /\ UNCHANGED stores)
    ]_vars

\* The defects of an ingredient list, read off the list itself.
HasId(item) == item.id # None /\ item.id # JInt(0)

Repeats(value) ==
    { k \in DOMAIN value : HasId(value[k]) /\ \E j \in 1..(k - 1) : value[j].id = value[k].id }

IntegerOf(amount) == IF amount.t \in {"int", "str"} THEN amount.v ELSE 0

Defects(value) ==
    { Err("missing_id", k, {}) : k \in { j \in DOMAIN value : ~HasId(value[j]) } }
    \cup { Err("missing_amount", k, {}) : k \in { j \in DOMAIN value : value[j].amount = None } }
    \cup { Err("bad_amount_format", k, {}) :
             k \in { j \in DOMAIN value : value[j].amount = NotANumber } }
    \cup { Err("amount_lt_1", k, {}) :
             k \in { j \in DOMAIN value :
                       value[j].amount # None /\ value[j].amount # NotANumber
                       /\ IntegerOf(value[j].amount) < 1 } }
    \cup { Err("duplicate", k, {value[k].id}) : k \in Repeats(value) }
    \cup (LET unknown == { value[k].id : k \in { j \in DOMAIN value : HasId(value[j]) } }
                           \ { JInt(n) : n \in DOMAIN Catalog }
          IN IF unknown = {} THEN {} ELSE {Err("nonexistent", 0, unknown)})

Range(f) == { f[k] : k \in DOMAIN f }

----
\* The ingredient lines of the recipes in a user's cart, and their
\* (name, unit) pairs, read off the stored rows.
LinesInCartOf(u) == { l \in lines : relation["ShoppingListRecipe"][<<u, l.recipe>>] > 0 }

NameUnit(l) == <<Catalog[l.ingredient].name, Catalog[l.ingredient].measurement_unit>>

RECURSIVE TotalOf(_)
TotalOf(rows) ==
    IF rows = {} THEN 0
    ELSE LET l == CHOOSE x \in rows : TRUE IN TotalOf(rows \ {l}) + l.amount

\* C9: the list built for a user has exactly one entry per (name, unit) pair
\* of the ingredient lines of the recipes in that user's cart, whatever the
\* ingredient ids, and the total of the entry is the sum of the amounts of
\* all lines of the pair.
C9_GroupedByNameAndUnit ==
    [][\A w \in Workers, u \in Users :
        (LinesInCartOf(u) # {} /\ Download(w, u))
          => LET rows == LinesInCartOf(u)
                 pairs == { NameUnit(l) : l \in rows }
             IN /\ resp'.status = 200
                /\ Len(resp'.items) = Cardinality(pairs)
                /\ \A p \in pairs :
                     \E k \in DOMAIN resp'.items :
                        /\ resp'.items[k].name = p[1]
                        /\ resp'.items[k].measurement_unit = p[2]
                        /\ resp'.items[k].total_amount =
                             TotalOf({ l \in rows : NameUnit(l) = p })
    ]_vars

\* A list whose single entry adds up lines of two distinct ingredient rows
\* from two recipes.
C9_Witness ==
    /\ resp.status = 200
    /\ Len(resp.items) = 1
    /\ \E u \in Users : \E l1 \in LinesInCartOf(u), l2 \in LinesInCartOf(u) :
         /\ l1.ingredient # l2.ingredient
         /\ l1.recipe # l2.recipe
         /\ LinesInCartOf(u) = {l1, l2}
         /\ resp.items[1].total_amount = l1.amount + l2.amount

\* The line the report is said to have for a (name, unit) pair: the notes
\* are the distinct non-empty notes of the pair's lines, sorted.
SortedNotes == <<"coarse", "fine">>

RECURSIVE JoinNotes(_, _)
JoinNotes(notes, k) ==
    IF k > Len(SortedNotes) THEN ""
    ELSE IF SortedNotes[k] \in notes
         THEN SortedNotes[k]
              \o (IF \E j \in (k + 1)..Len(SortedNotes) : SortedNotes[j] \in notes
                  THEN ", " ELSE "")
              \o JoinNotes(notes, k + 1)
         ELSE JoinNotes(notes, k + 1)

ReportLine(p, rows) ==
    LET group == { l \in rows : NameUnit(l) = p }
        notes == { l.notes : l \in group } \ {""}
    IN p[1] \o " - " \o ToString(TotalOf(group)) \o " " \o p[2]
       \o (IF notes = {} THEN "" ELSE " (" \o JoinNotes(notes, 1) \o ")")

\* C10: the report has one line per (name, unit) pair, in the order of the
\* names, each "{name} - {total} {unit}" followed by " ({notes})" when the
\* pair's lines carry notes; for the cart holding A (Salt, 5, g, "fine") and
\* B (Salt, 3, g, "") the line is "Salt - 8 g (fine)".
C10_ReportLineFormat ==
    [][\A w \in Workers, u \in Users :
        (LinesInCartOf(u) # {} /\ Download(w, u))
          => LET rows == LinesInCartOf(u)
                 pairs == { NameUnit(l) : l \in rows }
             IN /\ Len(resp'.content) = Cardinality(pairs)
                /\ \A p \in pairs : \E k \in DOMAIN resp'.content :
                      resp'.content[k] = ReportLine(p, rows)
                /\ \A j, k \in DOMAIN resp'.items :
                      j < k => NameRank(resp'.items[j].name) <= NameRank(resp'.items[k].name)
    ]_vars

----
\* C4: for both relation kinds and every (user, recipe) pair of an existing
\* recipe, a POST while the pair is present is answered 400 with the "already
\* there" message, a DELETE while the pair is absent is answered 400 with the
\* "not found" message, both leave the relation rows as they were; a created
\* pair is present afterwards and a deleted pair is absent afterwards, so the
\* second of two adds and the second of two removes fail.
C4_DuplicateAndNotFound ==
    [][\A m \in RelationModels, u \in Users, r \in RecipeIds : \A w \in Workers :
        /\ (recipes[r] # None /\ relation[m][<<u, r>>] > 0 /\ RelationBegin(w, m, "POST", u, r))
              => (resp' = Response(400, "exists_message", <<>>) /\ relation' = relation)
        /\ (recipes[r] # None /\ relation[m][<<u, r>>] = 0 /\ RelationBegin(w, m, "DELETE", u, r))
              => (resp' = Response(400, "not_found_message", <<>>) /\ relation' = relation)
        /\ (pc[w] = "relation_create" /\ req[w] = [handler |-> "relation", model |-> m, user |-> u, recipe |-> r]
              /\ RelationCreate(w) /\ resp'.status = 201)
              => relation'[m][<<u, r>>] > 0
        /\ (pc[w] = "relation_delete" /\ req[w] = [handler |-> "relation", model |-> m, user |-> u, recipe |-> r]
              /\ RelationDelete(w))
              => relation'[m][<<u, r>>] = 0
    ]_vars

\* A duplicate add was refused while the pair is stored.
C4_Witness ==
    /\ resp = Response(400, "exists_message", <<>>)
    /\ \E m \in RelationModels, k \in Users \X RecipeIds : relation[m][k] = 1

\* C5: a request that reaches its insert after another request has stored the
\* same pair is answered with the duplicate error (400) and is never an
\* unhandled fault (500); no second row is stored.
C5_RaceLoserGetsDuplicateError ==
    [][\A w \in Workers :
        /\ (pc[w] = "relation_create" /\ relation[req[w].model][<<req[w].user, req[w].recipe>>] > 0
              /\ RelationCreate(w))
              => (resp' = Response(400, "exists_message", <<>>) /\ relation' = relation)
        /\ (pc[w] = "subscription_create" /\ subscriptions[<<req[w].user, req[w].author>>] > 0
              /\ SubscriptionCreate(w))
              => (resp' = Response(400, "already_subscribed", <<>>) /\ subscriptions' = subscriptions)
    ]_vars

\* C6: a subscribe request whose target is the requesting user is answered
\* 400 with the self-subscription message and the subscription rows stay as
\* they were.
C6_SelfSubscriptionRefused ==
    [][\A w \in Workers, u \in Users :
        SubscriptionBegin(w, "POST", u, u)
          => (resp' = Response(400, "self_subscription", <<>>) /\ subscriptions' = subscriptions)
    ]_vars

\* A self-subscription was refused while some other subscription is stored.
C6_Witness ==
    /\ resp = Response(400, "self_subscription", <<>>)
    /\ \E k \in Users \X Users : subscriptions[k] = 1

\* C7: in every reachable state no subscription row has follower = author,
\* no (follower, author) pair has two subscription rows, no (user, recipe)
\* pair has two favorite rows or two shopping-cart rows; and a direct insert
\* of a pair that is already stored is rejected with IntegrityError.
C7_Uniqueness ==
    /\ [](/\ \A u \in Users : subscriptions[<<u, u>>] = 0
          /\ \A k \in Users \X Users : subscriptions[k] <= 1
          /\ \A m \in RelationModels, k \in Users \X RecipeIds : relation[m][k] <= 1)
    /\ [][/\ \A m \in RelationModels, u \in Users, r \in RecipeIds :
              (relation[m][<<u, r>>] > 0 /\ DirectRelationCreate(m, u, r))
                => (resp'.detail = "IntegrityError" /\ relation' = relation)
          /\ \A u \in Users, a \in Users :
              (subscriptions[<<u, a>>] > 0 /\ DirectSubscriptionCreate(u, a))
                => (resp'.detail = "IntegrityError" /\ subscriptions' = subscriptions)
       ]_vars

\* A direct second insert was rejected: the pair is stored once.
C7_Witness ==
    /\ resp = Response(0, "IntegrityError", <<>>)
    /\ \E k \in Users \X Users : subscriptions[k] = 1
    /\ \E m \in RelationModels, k \in Users \X RecipeIds : relation[m][k] = 1

----
\* C11: a download is answered 400 "shopping list is empty" exactly when the
\* user has no shopping-cart row, and with the text report (200, at least
\* one line) whenever the user has a shopping-cart row.
C11_EmptyCartError ==
    [][\A w \in Workers, u \in Users :
        (pc[w] = "idle" /\ Download(w, u))
          => IF \A r \in RecipeIds : relation["ShoppingListRecipe"][<<u, r>>] = 0
             THEN resp' = Response(400, "shopping_list_empty", <<>>)
             ELSE resp'.status = 200 /\ Len(resp'.content) >= 1
    ]_vars

----
\* The query is a prefix of the name when letters are compared without case.
FoldChar ==
    [c \in Chars |->
        IF \E k \in 1..Len(UpperCase) : CharAt(UpperCase, k) = c
        THEN CharAt(LowerCase, CHOOSE k \in 1..Len(UpperCase) : CharAt(UpperCase, k) = c)
        ELSE c]

AlphabetPosition == [c \in Chars |-> CHOOSE j \in 1..Len(LowerCase) : CharAt(LowerCase, j) = FoldChar[c]]

IsPrefixIgnoringCase(query, name) ==
    \A k \in 1..Len(query) :
        k <= Len(name) /\ FoldChar[CharAt(query, k)] = FoldChar[CharAt(name, k)]

RECURSIVE AlphabeticallyAfter(_, _, _)
\* a comes strictly after b in the alphabet, compared from letter k on
AlphabeticallyAfter(a, b, k) ==
    IF k > Len(a) THEN FALSE
    ELSE IF k > Len(b) THEN TRUE
    ELSE LET x == AlphabetPosition[CharAt(a, k)]
             y == AlphabetPosition[CharAt(b, k)]
         IN IF x = y THEN AlphabeticallyAfter(a, b, k + 1) ELSE x > y

----
\* C13: the subscription lookup and the favorite / shopping-cart lookups
\* change no stored row and return a boolean that is determined by the
\* stored rows and the arguments alone (TRUE exactly when the viewer is
\* logged in and the row is stored), so that calls repeated with no mutation
\* in between return the same boolean.
C13_PureLookups ==
    [][\A w \in Workers :
        /\ \A u \in Viewers, a \in Users :
             (resp'.detail = "user" /\ resp'.items[1].id = a /\ ProfileRetrieve(w, u, a))
               => /\ UNCHANGED stores
                  /\ resp'.items[1].is_subscribed \in BOOLEAN
                  /\ resp'.items[1].is_subscribed
                       = (u \in Users /\ subscriptions[<<u, a>>] >= 1)
        /\ (pc[w] = "retrieve_serialize" /\ RetrieveSerialize(w))
               => LET u == req[w].user
                      r == req[w].recipe
                      a == req[w].instance.author
                      data == resp'.items[1]
                  IN /\ UNCHANGED stores
                     /\ {data.is_favorited, data.is_in_shopping_cart,
                         data.author.is_subscribed} \subseteq BOOLEAN
                     /\ data.is_favorited
                          = (u \in Users /\ relation["BookmarkedRecipe"][<<u, r>>] >= 1)
                     /\ data.is_in_shopping_cart
                          = (u \in Users /\ relation["ShoppingListRecipe"][<<u, r>>] >= 1)
                     /\ data.author.is_subscribed
                          = (u \in Users /\ subscriptions[<<u, a>>] >= 1)
    ]_vars

\* A recipe page read by a user who has the recipe among the favorites, not
\* in the cart, and is subscribed to its author.
C13_Witness ==
    /\ resp.detail = "recipe"
    /\ resp.items[1].is_favorited
    /\ ~resp.items[1].is_in_shopping_cart
    /\ resp.items[1].author.is_subscribed

----
\* The rows said to be stored for a submitted list: one per line, with the
\* line's ingredient id and the integer its amount stands for.
SubmittedLines(r, value) ==
    { [recipe |-> r, ingredient |-> value[k].id.v, amount |-> IntegerOf(value[k].amount),
       notes |-> ""] : k \in DOMAIN value }

\* C14: when a create request is answered 201, the stored recipe has the
\* requesting user as its author, whatever author the body named, and its
\* stored ingredient lines are exactly the lines of the body.
C14_CreateAuthorForced ==
    [][\A w \in Workers :
        (pc[w] = "create_lines" /\ CreateLines(w) /\ resp'.status = 201)
          => /\ recipes'[req[w].recipe] # None
             /\ recipes'[req[w].recipe].author = req[w].user
             /\ { l \in lines' : l.recipe = req[w].recipe }
                  = SubmittedLines(req[w].recipe, req[w].ingredients)
             /\ Cardinality({ l \in lines' : l.recipe = req[w].recipe })
                  = Len(req[w].ingredients)
    ]_vars

\* A recipe created by user 2 from a body naming user 1 as the author, with
\* two lines.
C14_Witness ==
    /\ resp.status = 201
    /\ \E r \in RecipeIds :
         /\ recipes[r] # None
         /\ recipes[r].author = 2
         /\ Cardinality({ l \in lines : l.recipe = r }) = 2

----
\* C15: when a create request fails after its recipe row was inserted and
\* before its ingredient lines are stored, the recipe row is not stored
\* afterwards; and whenever no request is in flight, every stored recipe
\* has at least one ingredient line.
C15_CreateAllOrNothing ==
    /\ [][\A w \in Workers :
            (pc[w] = "create_lines" /\ pc'[w] = "idle" /\ resp'.status # 201)
              => recipes'[req[w].recipe] = None
         ]_vars
    /\ []((\A w \in Workers : pc[w] = "idle")
            => \A r \in RecipeIds :
                  recipes[r] # None => \E l \in lines : l.recipe = r)

----
\* C16: when an update request of the author is answered 200, the stored
\* ingredient lines of the recipe are exactly the lines of the body, so
\* that no line stored before the request and absent from the body is left;
\* and neither statement of the replacement changes a line of another
\* recipe.
C16_UpdateReplacesLines ==
    [][\A w \in Workers :
        /\ (pc[w] = "update_insert" /\ UpdateInsert(w) /\ resp'.status = 200)
              => /\ { l \in lines' : l.recipe = req[w].recipe }
                      = SubmittedLines(req[w].recipe, req[w].ingredients)
                 /\ \A l \in req[w].original :
                      l \notin SubmittedLines(req[w].recipe, req[w].ingredients)
                        => l \notin lines'
        /\ (pc[w] \in {"update_delete", "update_insert"} /\ pc'[w] # pc[w])
              => { l \in lines' : l.recipe # req[w].recipe }
                   = { l \in lines : l.recipe # req[w].recipe }
    ]_vars

\* Recipe 1 was updated to two lines, neither being its original line,
\* while recipe 2 has a line.
C16_Witness ==
    /\ resp = Response(200, "ok", <<>>)
    /\ Cardinality({ l \in lines : l.recipe = 1 }) = 2
    /\ \A l \in lines : l.recipe = 1 => l.notes = ""
    /\ \E l \in lines : l.recipe = 2

----
\* C17, as stated: an update request of the author whose body has no
\* ingredients field is answered 400 with the "ingredients is required"
\* error, the handler ends, and no stored row is changed.
C17_MissingFieldError ==
    [][\A w \in Workers, r \in RecipeIds :
        \A data \in BodiesWithoutIngredients, partial \in BOOLEAN :
          (/\ pc[w] = "idle"
           /\ recipes[r] # None
           /\ UpdateBegin(w, recipes[r].author, r, data, partial))
            => /\ resp'.status = 400
               /\ Err("ingredients_required", 0, {}) \in Range(resp'.errors)
               /\ pc'[w] = "idle"
               /\ UNCHANGED stores
    ]_vars

\* C17, amended: an update request of the author whose body has no
\* ingredients field is answered 400 with validation errors, the handler
\* ends, and no stored row is changed; the errors hold the "ingredients is
\* required" error for every full update, and for a partial update
\* whenever the fields the body does carry are valid.
C17_MissingIngredientsRefused ==
    [][\A w \in Workers, r \in RecipeIds :
        \A data \in BodiesWithoutIngredients, partial \in BOOLEAN :
          (/\ pc[w] = "idle"
           /\ recipes[r] # None
           /\ UpdateBegin(w, recipes[r].author, r, data, partial))
            => /\ resp'.status = 400
               /\ resp'.errors # <<>>
               /\ (~partial \/ ~data.has_cooking_time \/ data.cooking_time >= 1)
                    => Err("ingredients_required", 0, {}) \in Range(resp'.errors)
               /\ pc'[w] = "idle"
               /\ UNCHANGED stores
    ]_vars

\* An update without ingredients was refused for that reason alone, after
\* an earlier update had replaced the lines of recipe 1.
C17_Witness ==
    /\ resp = Response(400, "ValidationError", <<Err("ingredients_required", 0, {})>>)
    /\ \A l \in lines : l.recipe = 1 => l.notes = ""
    /\ \E l \in lines : l.recipe = 1

----
\* C18: the delete of a recipe leaves no ingredient line and no favorite or
\* shopping-cart row of that recipe; and in every reachable state every
\* ingredient line names a stored recipe and every favorite or shopping-cart
\* row names a stored recipe and a stored user.
C18_CascadeDelete ==
    /\ [][\A w \in Workers :
            (pc[w] = "destroy_delete" /\ DestroyDelete(w))
              => /\ recipes'[req[w].recipe] = None
                 /\ \A l \in lines' : l.recipe # req[w].recipe
                 /\ \A m \in RelationModels, u \in Users :
                       relation'[m][<<u, req[w].recipe>>] = 0
         ]_vars
    /\ [](/\ \A l \in lines : RecipeExists(l.recipe)
          /\ \A m \in RelationModels, u \in Users, r \in RecipeIds :
                relation[m][<<u, r>>] > 0 => RecipeExists(r) /\ UserExists(u))

\* Recipe 1, which had an ingredient line and a favorite and a cart row of
\* user 2, was deleted by its author while every user still has a row.
C18_Witness ==
    /\ resp = Response(204, "no_content", <<>>)
    /\ recipes[1] = None
    /\ users = Users
    /\ \A w \in Workers : pc[w] = "idle"

----
\* C19: from any store in which the favorite (or shopping-cart) row, or the
\* subscription row, of the url is absent, the POST is answered 201 and the
\* row is stored, the DELETE that follows is answered 204 and the row is
\* absent again, and the store after the two calls is the store before them.
StoresBefore ==
    [RelationModels -> { [k \in Users \X RecipeIds |-> IF k[2] = 1 THEN g[k[1]] ELSE 0] :
                           g \in [Users -> {0, 1}] }]
      \X { [k \in Users \X Users |-> IF k[2] = 1 /\ k[1] # 1 THEN g[k[1]] ELSE 0] :
             g \in [Users -> {0, 1}] }

C19_PostThenDelete ==
    /\ [](client.step # "failed")
    /\ [][UNCHANGED <<users, ingredients, recipes, next_id, lines>>]_vars
    /\ \A before \in StoresBefore :
          (relation = before[1] /\ subscriptions = before[2])
            => [](client.step = "passed"
                    => relation = before[1] /\ subscriptions = before[2])

\* Both calls of a script were answered and both pairs of asserts passed.
C19_Witness ==
    /\ client.step = "passed"
    /\ resp = Response(204, "no_content", <<>>)

----
\* The ingredient an id names, and what the claim reads off a list: whether
\* it is acceptable, and the ids it holds that name no catalog row.
IngredientOf(id) == id.v

Acceptable(value) ==
    /\ Len(value) >= 1
    /\ \A k \in DOMAIN value :
          /\ HasId(value[k])
          /\ value[k].amount # None
          /\ value[k].amount.t \in {"int", "str"}
          /\ value[k].amount.v >= 1
          /\ IngredientOf(value[k].id) \in DOMAIN Catalog
          /\ \A j \in DOMAIN value :
                j # k => ~(HasId(value[j])
                           /\ IngredientOf(value[j].id) = IngredientOf(value[k].id))

UnknownIds(value) ==
    { value[k].id : k \in { j \in DOMAIN value :
                              HasId(value[j]) /\ IngredientOf(value[j].id) \notin DOMAIN Catalog } }

\* C20: a received list is accepted exactly when it is non-empty, every line
\* has an id and an amount that converts to an integer of at least 1, no
\* ingredient is named twice and every id names a catalog row; the empty
\* list is refused with the empty-list error, and a list with ids that name
\* no catalog row with the error that lists exactly those ids.
C20_AcceptsExactlyValidLists ==
    [][(pc[1] = "received" /\ HandleReceived(1))
         => LET value == req[1].data.ingredients IN
            /\ Acceptable(value) <=> pc'[1] \in {"create_recipe", "update_save"}
            /\ ~Acceptable(value) => resp'.status = 400
            /\ Len(value) = 0 => resp'.errors = <<Err("empty", 0, {})>>
            /\ UnknownIds(value) # {}
                 => Err("nonexistent", 0, UnknownIds(value)) \in Range(resp'.errors)
    ]_vars

----
\* The lines of a list whose ingredient was named by an earlier line.
NamedEarlier(value) ==
    { k \in DOMAIN value :
        /\ HasId(value[k])
        /\ \E j \in 1..(k - 1) :
              HasId(value[j]) /\ IngredientOf(value[j].id) = IngredientOf(value[k].id) }

\* C21: the answer to a received list holds a duplicate error for line k
\* exactly when the ingredient id of line k was already the id of an earlier
\* line: never for the first line that names an ingredient, and never for a
\* line without an id.
C21_DuplicateExactlyForRepeats ==
    [][(pc[1] = "received" /\ HandleReceived(1))
         => \A k \in DOMAIN req[1].data.ingredients :
              (resp'.status = 400
               /\ \E e \in Range(resp'.errors) : e.kind = "duplicate" /\ e.index = k)
                <=> k \in NamedEarlier(req[1].data.ingredients)
    ]_vars

----
\* C22: whenever no request is being handled, every stored recipe has at
\* least one ingredient line, and every stored line has an amount of at
\* least 1, names a catalog row, and is the only line of its recipe for its
\* ingredient.
C22_StoredRecipesWellFormed ==
    (\A w \in Workers : pc[w] = "idle")
      => /\ \A r \in RecipeIds : recipes[r] # None => LinesOf(r) # {}
         /\ \A l \in lines :
               /\ l.amount >= 1
               /\ l.ingredient \in DOMAIN ingredients
               /\ \A l2 \in lines :
                     (l2.recipe = l.recipe /\ l2.ingredient = l.ingredient) => l2 = l

----
\* The favorite set, the shopping-cart set and the subscription edges, read
\* off the stored rows.
FavoriteSet == { k \in Users \X RecipeIds : relation["BookmarkedRecipe"][k] > 0 }

CartSet == { k \in Users \X RecipeIds : relation["ShoppingListRecipe"][k] > 0 }

SubscriptionEdges == { k \in Users \X Users : subscriptions[k] > 0 }

\* C23: the recipe page served to a viewer marks the recipe as favorited
\* exactly when (viewer, recipe) is in the favorite set, as in the cart
\* exactly when (viewer, recipe) is in the shopping-cart set, and its author
\* as subscribed exactly when the edge (viewer, author) is stored; for a
\* viewer who is not logged in all three marks are false.
C23_DetailFlags ==
    [][\A w \in Workers :
        (pc[w] = "retrieve_serialize" /\ RetrieveSerialize(w))
          => LET viewer == req[w].user
                 recipe == req[w].recipe
                 page == resp'.items[1]
             IN /\ resp'.status = 200
                /\ page.id = recipe
                /\ page.author.id = recipes[recipe].author
                /\ page.is_favorited <=> <<viewer, recipe>> \in FavoriteSet
                /\ page.is_in_shopping_cart <=> <<viewer, recipe>> \in CartSet
                /\ page.author.is_subscribed <=> <<viewer, page.author.id>> \in SubscriptionEdges
                /\ viewer = Anonymous
                     => /\ ~page.is_favorited
                        /\ ~page.is_in_shopping_cart
                        /\ ~page.author.is_subscribed
    ]_vars

\* A recipe page marked as in the viewer's cart and not among the viewer's
\* favorites, while another user has the recipe among the favorites.
C23_Witness ==
    /\ resp.detail = "recipe"
    /\ resp.items[1].is_in_shopping_cart
    /\ ~resp.items[1].is_favorited
    /\ ~resp.items[1].author.is_subscribed
    /\ \E u \in Users : <<u, resp.items[1].id>> \in FavoriteSet

----
\* The entries of a recipe page for a set of stored lines.
PageEntries(rows) ==
    { [id |-> l.ingredient, name |-> Catalog[l.ingredient].name,
       measurement_unit |-> Catalog[l.ingredient].measurement_unit,
       amount |-> l.amount] : l \in rows }

\* C24: a recipe page served while an update of the same recipe is being
\* handled lists either all the lines the recipe had when the update began
\* or all the lines of the update's body, never no line and never a part.
C24_ReadSeesOldOrNew ==
    [][\A w \in Workers, v \in Workers :
        (/\ pc[w] = "retrieve_serialize"
         /\ pc[v] \in {"update_save", "update_delete", "update_insert"}
         /\ req[v].recipe = req[w].recipe
         /\ RetrieveSerialize(w))
          => \/ resp'.items[1].ingredients = PageEntries(req[v].original)
             \/ resp'.items[1].ingredients
                  = PageEntries(SubmittedLines(req[v].recipe, req[v].ingredients))
    ]_vars

----
\* C25: when the last of the updates of a recipe that are handled at the
\* same time stores its lines, it is answered 200 and the recipe's stored
\* lines are exactly the lines of one of the submitted lists: no union of
\* two lists and no integrity fault.
C25_ConcurrentUpdatesSerialize ==
    [][\A w \in Workers :
        (/\ pc[w] = "update_insert"
         /\ \A v \in Workers \ {w} : pc[v] = "idle"
         /\ UpdateInsert(w))
          => /\ resp'.status = 200
             /\ \E value \in ConcurrentBodies :
                   { l \in lines' : l.recipe = req[w].recipe }
                     = SubmittedLines(req[w].recipe, value)
    ]_vars

----
\* C26: the shopping-list download changes no table, its report is made of
\* the lines of the recipes in the requesting user's own cart rows, and a
\* step that leaves the user's own cart rows, the recipes' lines and the
\* catalog as they are (whatever it does to other users' cart rows, to
\* favorite rows, to subscriptions or to planned dates) leaves the reports
\* the user can get as they are.
OwnCartRows(user) ==
    { k \in Users \X RecipeIds : k[1] = user /\ relation["ShoppingListRecipe"][k] > 0 }

Reports(user) == OrderedByName(Annotated(CartLines(user)))

C26_DownloadReadsOwnCartOnly ==
    [][/\ \A w \in Workers, user \in Users :
            Download(w, user)
              => /\ UNCHANGED stores
                 /\ resp'.items \in OrderedByName(Annotated(
                       { l \in lines : <<user, l.recipe>> \in OwnCartRows(user) }))
       /\ \A user \in Users :
            (OwnCartRows(user)' = OwnCartRows(user) /\ UNCHANGED <<lines, ingredients>>)
              => Reports(user)' = Reports(user)
    ]_vars

\* User 1 downloads the list of recipe 1 while user 2 has recipe 2 in the
\* cart, recipe 1 is a favorite, user 2 follows user 1 and the cart row has
\* a planned date.
C26_Witness ==
    /\ resp.status = 200
    /\ resp.detail = "attachment"
    /\ resp.content = <<"Salt (g): 5.00">>
    /\ relation["ShoppingListRecipe"][<<1, 2>>] = 0
    /\ relation["ShoppingListRecipe"][<<2, 2>>] > 0
    /\ \E u \in Users : relation["BookmarkedRecipe"][<<u, 1>>] > 0
    /\ subscriptions[<<2, 1>>] > 0
    /\ planned_cooking_date[<<1, 1>>] # None

----
\* C27: every step of a favorite or shopping-cart request, whatever its
\* answer, leaves the users, the catalog, the recipes, the ingredient lines
\* and the subscriptions as they are, and changes no relation row but the
\* one of the request's own kind and (user, recipe) pair, which only the
\* insert and the delete statement of the request touch.
C27_RelationFrame ==
    [][\A w \in Workers :
        (/\ pc[w] \in {"idle", "relation_create", "relation_delete"}
         /\ \/ RelationCreate(w)
            \/ RelationDelete(w)
            \/ \E m \in RelationModels, method \in {"POST", "DELETE"},
                  u \in Users, r \in RecipeIds : RelationBegin(w, m, method, u, r))
          => /\ UNCHANGED <<users, ingredients, recipes, next_id, lines, subscriptions>>
             /\ \A m \in RelationModels, k \in Users \X RecipeIds :
                   (\/ pc[w] = "idle"
                    \/ m # req[w].model
                    \/ k # <<req[w].user, req[w].recipe>>)
                     => relation'[m][k] = relation[m][k]
    ]_vars

\* User 1's favorite of recipe 1 was just stored next to user 1's cart row,
\* user 2's favorite row and a subscription.
C27_Witness ==
    /\ resp = Response(201, "created", <<>>)
    /\ relation["BookmarkedRecipe"][<<1, 1>>] = 1
    /\ relation["ShoppingListRecipe"][<<1, 1>>] = 0
    /\ relation["BookmarkedRecipe"][<<2, 1>>] = 1
    /\ relation["ShoppingListRecipe"][<<2, 1>>] = 1
    /\ subscriptions[<<2, 1>>] = 1
    /\ lines # {}
    /\ \A w \in Workers : pc[w] = "idle"

====
